---- MODULE Spec2Model ----
(***************************************************************************)
(* Model of the document-understanding pipeline of src/main.py:            *)
(* invoke -> supervisor -> ensure_text_ingested / run_classification_agent *)
(* / run_processing_agent, with the helpers read_s3_object_as_text,        *)
(* run_textract_sync, _extract_text_from_agent_response and                *)
(* _parse_json_from_text.                                                  *)
(*                                                                         *)
(* A text is a sequence of lexemes, each a one-character string:           *)
(*   "{" "}" "[" "]" "," ":"   the JSON punctuation                        *)
(*   "a" "b"                   the string literals "a" and "b"             *)
(*   "1" "0"                   the numbers 1 and 0                         *)
(*   "N"                       the literal null                            *)
(*   " " "\n"                  whitespace                                  *)
(*   "x"                       a narration character (starts no JSON value)*)
(***************************************************************************)
EXTENDS Integers, Sequences, FiniteSets, TLC

\* ------------------------------------------------------------------------
\* Bounds of the model
\* ------------------------------------------------------------------------
MaxNarration == 1
MaxPending == 2
MaxPages == 2
MaxBytes == 2
MaxRuns == 2

\* ------------------------------------------------------------------------
\* Python values
\* ------------------------------------------------------------------------
PyNone == [t |-> "none", k |-> "", c |-> <<>>, s |-> <<>>]
PyNum(d) == [t |-> "num", k |-> d, c |-> <<>>, s |-> <<>>]
PyStr(chars) == [t |-> "str", k |-> "", c |-> <<>>, s |-> chars]
PyList(elems) == [t |-> "list", k |-> "", c |-> elems, s |-> <<>>]
\* a dict is its items ordered by key (dict equality ignores insertion order)
PyDict(items) == [t |-> "dict", k |-> "", c |-> items, s |-> <<>>]
PyItem(key, v) == [t |-> "item", k |-> key, c |-> <<v>>, s |-> <<>>]

\* bool(v), as `not state.text` and `x or {}` evaluate it
Truthy(v) ==
  CASE v.t = "none" -> FALSE
    [] v.t = "num" -> v.k # "0"
    [] v.t = "str" -> v.s # <<>>
    [] OTHER -> v.c # <<>>

IsNone(v) == v.t = "none"

\* ------------------------------------------------------------------------
\* json.loads on lexeme sequences
\* ------------------------------------------------------------------------
StrLex == {"a", "b"}
NumLex == {"1", "0"}
WsLex == {" ", "\n"}

Ok(v, i) == [ok |-> TRUE, v |-> v, i |-> i, msg |-> ""]
Fail(msg, i) == [ok |-> FALSE, v |-> PyNone, i |-> i, msg |-> msg]

RECURSIVE SkipWs(_, _)
SkipWs(s, i) ==
  IF i <= Len(s) /\ s[i] \in WsLex THEN SkipWs(s, i + 1) ELSE i

\* dict assignment d[key] = v on the ordered items
RECURSIVE SetItem(_, _, _)
SetItem(items, key, v) ==
  IF items = <<>> THEN <<PyItem(key, v)>>
  ELSE IF Head(items).k = key THEN <<PyItem(key, v)>> \o Tail(items)
  ELSE IF key = "a" THEN <<PyItem(key, v)>> \o items
  ELSE <<Head(items)>> \o SetItem(Tail(items), key, v)

RECURSIVE ParseValue(_, _)
RECURSIVE ParseItems(_, _, _)
RECURSIVE ParseElems(_, _, _)

\* the members of an object, i at the position where a key is expected
ParseItems(s, i, acc) ==
  IF i > Len(s) \/ (i <= Len(s) /\ s[i] \notin StrLex)
  THEN Fail("Expecting property name enclosed in double quotes", i)
  ELSE LET k == SkipWs(s, i + 1) IN
    IF k > Len(s) \/ (k <= Len(s) /\ s[k] # ":")
    THEN Fail("Expecting ':' delimiter", k)
    ELSE LET r == ParseValue(s, SkipWs(s, k + 1)) IN
      IF ~r.ok THEN r
      ELSE LET m == SkipWs(s, r.i)
               acc2 == SetItem(acc, s[i], r.v) IN
        IF m <= Len(s) /\ s[m] = "}" THEN Ok(PyDict(acc2), m + 1)
        ELSE IF m > Len(s) \/ (m <= Len(s) /\ s[m] # ",")
        THEN Fail("Expecting ',' delimiter", m)
        ELSE ParseItems(s, SkipWs(s, m + 1), acc2)

\* the elements of an array, i at the position where a value is expected
ParseElems(s, i, acc) ==
  LET r == ParseValue(s, i) IN
    IF ~r.ok THEN r
    ELSE LET m == SkipWs(s, r.i)
             acc2 == Append(acc, r.v) IN
      IF m <= Len(s) /\ s[m] = "]" THEN Ok(PyList(acc2), m + 1)
      ELSE IF m > Len(s) \/ (m <= Len(s) /\ s[m] # ",")
      THEN Fail("Expecting ',' delimiter", m)
      ELSE ParseElems(s, SkipWs(s, m + 1), acc2)

ParseValue(s, i) ==
  IF i > Len(s) THEN Fail("Expecting value", i)
  ELSE IF s[i] = "{"
  THEN LET j == SkipWs(s, i + 1) IN
         IF j <= Len(s) /\ s[j] = "}" THEN Ok(PyDict(<<>>), j + 1)
         ELSE ParseItems(s, j, <<>>)
  ELSE IF s[i] = "["
  THEN LET j == SkipWs(s, i + 1) IN
         IF j <= Len(s) /\ s[j] = "]" THEN Ok(PyList(<<>>), j + 1)
         ELSE ParseElems(s, j, <<>>)
  ELSE IF s[i] \in StrLex THEN Ok(PyStr(<<s[i]>>), i + 1)
  ELSE IF s[i] \in NumLex THEN Ok(PyNum(s[i]), i + 1)
  ELSE IF s[i] = "N" THEN Ok(PyNone, i + 1)
  ELSE Fail("Expecting value", i)

\* json.loads(s): one value, whitespace around it, nothing else
Loads(s) ==
  LET r == ParseValue(s, SkipWs(s, 1)) IN
    IF ~r.ok THEN r
    ELSE LET e == SkipWs(s, r.i) IN
      IF e # Len(s) + 1 THEN Fail("Extra data", e) ELSE r

\* json.dumps(v) with the default separators ", " and ": "
RECURSIVE Dumps(_)
RECURSIVE DumpsSeq(_)
DumpsSeq(vs) ==
  IF vs = <<>> THEN <<>>
  ELSE LET one == IF Head(vs).t = "item"
                  THEN <<Head(vs).k, ":", " ">> \o Dumps(Head(vs).c[1])
                  ELSE Dumps(Head(vs)) IN
       IF Tail(vs) = <<>> THEN one ELSE one \o <<",", " ">> \o DumpsSeq(Tail(vs))
Dumps(v) ==
  CASE v.t = "none" -> <<"N">>
    [] v.t = "num" -> <<v.k>>
    [] v.t = "str" -> v.s
    [] v.t = "list" -> <<"[">> \o DumpsSeq(v.c) \o <<"]">>
    [] OTHER -> <<"{">> \o DumpsSeq(v.c) \o <<"}">>

\* str.find(ch) and str.rfind(ch): 0-based index, -1 when absent
RECURSIVE FindFrom(_, _, _)
FindFrom(s, ch, i) ==
  IF i > Len(s) THEN -1
  ELSE IF s[i] = ch THEN i - 1 ELSE FindFrom(s, ch, i + 1)
Find(s, ch) == FindFrom(s, ch, 1)

RECURSIVE RFindFrom(_, _, _)
RFindFrom(s, ch, i) ==
  IF i < 1 THEN -1
  ELSE IF s[i] = ch THEN i - 1 ELSE RFindFrom(s, ch, i - 1)
RFind(s, ch) == RFindFrom(s, ch, Len(s))

\* s[start:end] for 0 <= start < end <= len(s)
Slice(s, start, end) == SubSeq(s, start + 1, end)

\* ------------------------------------------------------------------------
\* Exceptions and log records
\* ------------------------------------------------------------------------
\* parts: the strings the exception's message is made of
Exc(type, parts) == [type |-> type, parts |-> parts]
NoExc == Exc("", <<>>)
\* the message of an exception carries the string p
HasPart(parts, p) == \E i \in 1..Len(parts) : parts[i] = p
\* str(e) of a json.JSONDecodeError is "<msg>: line l column c (char pos)";
\* its doc attribute is not part of the message
JSONDecodeError(msg) == Exc("JSONDecodeError", <<msg>>)

LogRec(level, parts, text) == [level |-> level, parts |-> parts, text |-> text]

\* ------------------------------------------------------------------------
\* _parse_json_from_text
\* ------------------------------------------------------------------------
Returned(v, log) == [raised |-> FALSE, v |-> v, exc |-> NoExc, log |-> log]
Raised(exc, log) == [raised |-> TRUE, v |-> PyNone, exc |-> exc, log |-> log]

InnerStart(raw_text) == Find(raw_text, "{")
\* a slip: the slice stops before the last "}"
InnerEnd_NoPlusOne(raw_text) == RFind(raw_text, "}")
InnerEnd(raw_text) == RFind(raw_text, "}") + 1

_parse_json_from_text(raw_text, context) ==
  LET full == Loads(raw_text) IN
    IF full.ok THEN Returned(full.v, <<>>)
    ELSE LET start == InnerStart(raw_text)
             end == InnerEnd(raw_text) IN
      IF start # -1 /\ end > start
      THEN LET inner == Loads(Slice(raw_text, start, end))
               warn == LogRec("warning", <<context, full.msg>>, <<>>) IN
             IF inner.ok THEN Returned(inner.v, <<warn>>)
             ELSE Raised(JSONDecodeError(inner.msg), <<warn>>)
      ELSE Raised(JSONDecodeError(full.msg),
                  <<LogRec("error", <<context, full.msg>>, raw_text)>>)

\* ------------------------------------------------------------------------
\* Keys: <dir><stem><ext>, e.g. intake/doc.pdf; a file named ".pdf" has stem
\* "" and os.path.splitext gives it no extension
\* ------------------------------------------------------------------------
Key(dir, stem, ext) == [missing |-> FALSE, dir |-> dir, stem |-> stem, ext |-> ext]
\* payload.get("key") when the payload has no key: None
NoKey == [missing |-> TRUE, dir |-> "", stem |-> "", ext |-> ""]
EmptyKey == Key("", "", "")

\* bool(key)
KeyTruthy(key) == ~key.missing /\ key # EmptyKey

Lower(ext) ==
  CASE ext = ".PDF" -> ".pdf"
    [] ext = ".JSON" -> ".json"
    [] OTHER -> ext

\* os.path.splitext(key)[1]
SplitExt(key) == IF key.stem = "" THEN "" ELSE key.ext

\* key.lower().endswith(suffix), for a suffix that is a whole extension
EndsWithLower(key, suffix) == Lower(key.ext) = suffix

TEXTRACT_EXTS == {".pdf", ".tif", ".tiff", ".png", ".jpg", ".jpeg"}

should_use_textract(key) == Lower(SplitExt(key)) \in TEXTRACT_EXTS

\* mimetypes.guess_type(key)[0]; "" is None
GuessType(key) ==
  LET e == Lower(SplitExt(key)) IN
  CASE e = ".txt" -> "text/plain"
    [] e = ".html" -> "text/html"
    [] e = ".htm" -> "text/html"
    [] e = ".json" -> "application/json"
    [] e = ".pdf" -> "application/pdf"
    [] e = ".png" -> "image/png"
    [] e = ".bin" -> "application/octet-stream"
    [] OTHER -> ""

\* content_type.startswith("text/")
IsTextType(content_type) == content_type \in {"text/plain", "text/html"}

\* ------------------------------------------------------------------------
\* Bytes and decoding.  Bytes: "41" = 'A', "C3" = lead byte of a two-byte
\* sequence, "A9" = continuation byte, "FF" = never valid in UTF-8.
\* Characters: "A"; "e" = U+00E9; latin-1 gives "C" = U+00C3, "c" = U+00A9,
\* "y" = U+00FF.
\* ------------------------------------------------------------------------
ByteVals == {"41", "C3", "A9", "FF"}

\* bytes.decode("utf-8"): ok = FALSE is UnicodeDecodeError
RECURSIVE Utf8Strict(_)
Utf8Strict(b) ==
  IF b = <<>> THEN [ok |-> TRUE, s |-> <<>>]
  ELSE IF Head(b) = "41"
  THEN LET r == Utf8Strict(Tail(b)) IN [ok |-> r.ok, s |-> <<"A">> \o r.s]
  ELSE IF Head(b) = "C3" /\ Len(b) >= 2 /\ b[2] = "A9"
  THEN LET r == Utf8Strict(SubSeq(b, 3, Len(b))) IN [ok |-> r.ok, s |-> <<"e">> \o r.s]
  ELSE [ok |-> FALSE, s |-> <<>>]

\* bytes.decode("utf-8", errors="ignore"): an invalid byte is dropped
RECURSIVE Utf8Ignore(_)
Utf8Ignore(b) ==
  IF b = <<>> THEN <<>>
  ELSE IF Head(b) = "41" THEN <<"A">> \o Utf8Ignore(Tail(b))
  ELSE IF Head(b) = "C3" /\ Len(b) >= 2 /\ b[2] = "A9"
  THEN <<"e">> \o Utf8Ignore(SubSeq(b, 3, Len(b)))
  ELSE Utf8Ignore(Tail(b))

\* bytes.decode("latin-1", errors="ignore"): every byte is a character
RECURSIVE Latin1(_)
Latin1(b) ==
  IF b = <<>> THEN <<>>
  ELSE <<CASE Head(b) = "41" -> "A"
           [] Head(b) = "C3" -> "C"
           [] Head(b) = "A9" -> "c"
           [] OTHER -> "y">> \o Latin1(Tail(b))

\* ------------------------------------------------------------------------
\* read_s3_object_as_text, after get_object returned obj
\* (hint = obj.get("ContentType"), "" when absent; body = obj["Body"].read())
\* ------------------------------------------------------------------------
UnicodeDecodeError == Exc("UnicodeDecodeError", <<"utf-8", "invalid start byte">>)

ContentTypeOf(hint, key) ==
  IF hint # "" THEN hint
  ELSE IF GuessType(key) # "" THEN GuessType(key)
  ELSE "application/octet-stream"

\* the `.json` branch: body.decode("utf-8")
DecodeJsonBranch(body) ==
  LET r == Utf8Strict(body) IN
    IF r.ok THEN Returned(PyStr(r.s), <<>>) ELSE Raised(UnicodeDecodeError, <<>>)

read_s3_object_as_text(hint, key, body) ==
  LET content_type == ContentTypeOf(hint, key) IN
    IF IsTextType(content_type) \/ EndsWithLower(key, ".html") \/ EndsWithLower(key, ".htm")
    THEN LET r == Utf8Strict(body) IN
           IF r.ok THEN Returned(PyStr(r.s), <<>>)
           ELSE Returned(PyStr(Latin1(body)), <<>>)
    ELSE IF EndsWithLower(key, ".json") THEN DecodeJsonBranch(body)
    ELSE Returned(PyStr(Utf8Ignore(body)), <<>>)

\* ------------------------------------------------------------------------
\* Input sets
\* ------------------------------------------------------------------------
RECURSIVE SeqsUpTo(_, _)
SeqsUpTo(S, n) ==
  IF n = 0 THEN {<<>>}
  ELSE LET shorter == SeqsUpTo(S, n - 1) IN
       shorter \cup {Append(q, x) : q \in shorter, x \in S}

Contexts == {"ClassificationAgent", "ProcessingAgent"}

\* ------------------------------------------------------------------------
\* Textract responses and the text built from them
\* ------------------------------------------------------------------------
Block(type, text) == [BlockType |-> type, Text |-> text]

\* the loop body of run_textract_sync: the Text of every LINE block that has one
RECURSIVE LinesOf(_)
LinesOf(blocks) ==
  IF blocks = <<>> THEN <<>>
  ELSE IF Head(blocks).BlockType = "LINE" /\ Head(blocks).Text # <<>>
  THEN <<Head(blocks).Text>> \o LinesOf(Tail(blocks))
  ELSE LinesOf(Tail(blocks))

\* "\n".join(lines)
RECURSIVE JoinLines(_)
JoinLines(lines) ==
  IF lines = <<>> THEN <<>>
  ELSE IF Tail(lines) = <<>> THEN Head(lines)
  ELSE Head(lines) \o <<"\n">> \o JoinLines(Tail(lines))

\* str.strip()
RECURSIVE LStrip(_)
LStrip(t) == IF t # <<>> /\ Head(t) \in WsLex THEN LStrip(Tail(t)) ELSE t
RECURSIVE RStrip(_)
RStrip(t) ==
  IF t # <<>> /\ t[Len(t)] \in WsLex THEN RStrip(SubSeq(t, 1, Len(t) - 1)) ELSE t
Strip(t) == RStrip(LStrip(t))

\* "\n".join(lines).strip()
TextOfLines(lines) == PyStr(Strip(JoinLines(lines)))

\* the exit test of the polling loop
IsTerminal(status) == status \in {"SUCCEEDED", "FAILED", "PARTIAL_SUCCESS"}

\* a slip: `lines` is rebound to the lines of the page just fetched
AppendLines_LastPageOnly(lines, resp) == LinesOf(resp.Blocks)
\* lines after the blocks of one more response were appended
AppendLines(lines, resp) == lines \o LinesOf(resp.Blocks)

RuntimeError(job_id, status) ==
  Exc("RuntimeError", <<"Textract job", job_id, "did not succeed, status:", status>>)

\* ------------------------------------------------------------------------
\* Model responses and _extract_text_from_agent_response
\* ------------------------------------------------------------------------
\* an object that is not a dict: its attributes and its str() rendering
PyObject(attrs, rendering) == [t |-> "object", k |-> "", c |-> attrs, s |-> rendering]

\* key in d / hasattr(o, name)
Has(v, name) == \E i \in 1..Len(v.c) : v.c[i].k = name
\* d[key] / getattr(o, name)
Get(v, name) == LET i == CHOOSE i \in 1..Len(v.c) : v.c[i].k = name IN v.c[i].c[1]

\* str(v); the inside of a non-empty dict or list rendering is not JSON
\* (single quotes), written "x"
StrOf(v) ==
  CASE v.t = "str" -> v.s
    [] v.t = "object" -> v.s
    [] v.t = "num" -> <<v.k>>
    [] v.t = "none" -> <<"x">>
    [] v.t = "list" -> IF v.c = <<>> THEN <<"[", "]">> ELSE <<"[", "x", "]">>
    [] OTHER -> IF v.c = <<>> THEN <<"{", "}">> ELSE <<"{", "x", "}">>

IsNonEmptyList(v) == v.t = "list" /\ v.c # <<>>

_extract_text_from_agent_response(resp) ==
  IF /\ resp.t = "dict" /\ Has(resp, "content")
     /\ IsNonEmptyList(Get(resp, "content"))
     /\ Get(resp, "content").c[1].t = "dict"
     /\ Has(Get(resp, "content").c[1], "text")
  THEN Get(Get(resp, "content").c[1], "text")
  ELSE IF resp.t = "dict" /\ Has(resp, "text") /\ Get(resp, "text").t = "str"
  THEN Get(resp, "text")
  ELSE IF resp.t = "dict" /\ Has(resp, "message") /\ Get(resp, "message").t = "str"
  THEN Get(resp, "message")
  ELSE IF resp.t = "dict" /\ Has(resp, "output") /\ Get(resp, "output").t = "str"
  THEN Get(resp, "output")
  ELSE IF /\ resp.t = "object" /\ Has(resp, "content")
          /\ IsNonEmptyList(Get(resp, "content"))
          /\ Get(resp, "content").c[1].t = "object"
          /\ Has(Get(resp, "content").c[1], "text")
  THEN Get(Get(resp, "content").c[1], "text")
  ELSE IF resp.t = "object" /\ Has(resp, "message") /\ Get(resp, "message").t = "str"
  THEN Get(resp, "message")
  ELSE IF resp.t = "object" /\ Has(resp, "text") /\ Get(resp, "text").t = "str"
  THEN Get(resp, "text")
  ELSE PyStr(StrOf(resp))

\* json.loads(raw_text) of a value that is not a str raises TypeError before
\* any parsing; _parse_json_from_text catches JSONDecodeError only
TypeError == Exc("TypeError", <<"the JSON object must be str, bytes or bytearray">>)

\* run_classification_agent / run_processing_agent once the agent returned resp
AgentResult(resp, context) ==
  LET raw_text == _extract_text_from_agent_response(resp) IN
    IF raw_text.t # "str" THEN Raised(TypeError, <<>>)
    ELSE _parse_json_from_text(raw_text.s, context)

\* narration around a JSON text
NarrationLex == {"x", " ", "{", "}", "[", "]"}
Narrations == SeqsUpTo(NarrationLex, MaxNarration)

\* the JSON objects whose serialization the model may emit
Objects ==
  { PyDict(<<>>),
    PyDict(<<PyItem("a", PyNum("1"))>>),
    PyDict(<<PyItem("a", PyNum("1")), PyItem("b", PyList(<<PyNum("1"), PyNum("0")>>))>>),
    PyDict(<<PyItem("b", PyDict(<<PyItem("a", PyStr(<<"b">>))>>))>>) }

\* texts that are not the serialization of an object
Fragments ==
  { <<>>, <<"x">>, <<"N">>, <<"{", "x", "}">>, <<"[", "1", "]">>, <<"{", "a", ":", "1">> }

AllKeys ==
  { Key("intake/", st, e) : st \in {"doc", ""},
                 e \in {"", ".txt", ".html", ".json", ".JSON", ".bin", ".pdf", ".PDF", ".png"} }

ContentTypeHints == {"", "text/plain", "application/json", "application/octet-stream"}

Bodies == SeqsUpTo(ByteVals, MaxBytes)

\* ------------------------------------------------------------------------
\* Input sets of the pipeline
\* ------------------------------------------------------------------------
\* payload.get("bucket"): missing, empty, a bucket
PayloadBuckets == {PyNone, PyStr(<<>>), PyStr(<<"b">>)}
PipelineKeys ==
  { Key("intake/", "doc", ".txt"), Key("intake/", "doc", ".json"),
    Key("intake/", "doc", ".PDF"), Key("intake/", "doc", ".png"),
    Key("intake/", "", ".pdf") }
PayloadKeys == {NoKey, EmptyKey} \cup PipelineKeys

JobIds == {"job1", "job2"}

NoBlocks == <<>>
LineA == <<Block("LINE", <<"A">>)>>
PageB == <<Block("PAGE", <<>>), Block("WORD", <<"B">>), Block("LINE", <<"B">>),
           Block("LINE", <<>>)>>
LineBlank == <<Block("LINE", <<" ">>)>>

TextractResponse(status, blocks, token) ==
  [JobStatus |-> status, Blocks |-> blocks, NextToken |-> token]

\* what get_document_text_detection(JobId=job_id) may answer
PollResponses ==
  { TextractResponse("IN_PROGRESS", bl, "") : bl \in {NoBlocks, LineA} }
  \cup { TextractResponse(st, bl, "") : st \in {"FAILED", "PARTIAL_SUCCESS"},
                                         bl \in {NoBlocks, LineA} }
  \cup { TextractResponse("SUCCEEDED", bl, tk) : bl \in {NoBlocks, LineA, PageB, LineBlank},
                                                 tk \in {"", "t1"} }
\* what get_document_text_detection(JobId=job_id, NextToken=t) and
\* detect_document_text may answer
PageResponses ==
  { TextractResponse("SUCCEEDED", bl, tk) : bl \in {NoBlocks, LineA, PageB},
                                            tk \in {"", "t2"} }

\* the raw text of a model answer
ModelTexts ==
  { <<"{", "a", ":", " ", "1", "}">>,            \* an object
    <<"x", " ", "{", "a", ":", " ", "1", "}", " ", "x">>,  \* narrated object
    <<"{", "}">>,                                \* the empty object
    <<"N">>,                                     \* null
    <<"0">>,                                     \* the number 0
    <<"[", "1", "]">>,                           \* a list
    <<"x">>,                                     \* no JSON at all
    <<"x", "{", "x", "}">> }                     \* braces around no JSON

\* what an agent call may return
ModelResponses ==
  { PyDict(<<PyItem("content", PyList(<<PyDict(<<PyItem("text", PyStr(t))>>)>>)),
             PyItem("role", PyStr(<<"a">>))>>) : t \in ModelTexts }
  \cup { PyObject(<<PyItem("message", PyDict(<<>>))>>, t) : t \in ModelTexts }
  \cup { PyDict(<<PyItem("content", PyList(<<PyDict(<<PyItem("text", PyNone)>>)>>))>>),
         PyDict(<<PyItem("role", PyStr(<<"a">>))>>),
         PyObject(<<PyItem("message", PyStr(<<"{", "b", ":", "1", "}">>))>>, <<"x">>) }

\* ------------------------------------------------------------------------
\* State
\* ------------------------------------------------------------------------
VARIABLES
  pc,      \* position of the single thread of control
  payload, \* the payload invoke was given
  entry,   \* "invoke" or "supervisor": how the running supervisor was entered
  run,     \* number of supervisor runs started on the record
  state,   \* the WorkflowState
  given,   \* the WorkflowState as it was when the current run started
  err,     \* the exception that ended the run
  tb,      \* the function the exception was raised under (its traceback)
  calls,   \* calls made during the current run, per collaborator and stage
  loc,     \* locals of ensure_text_ingested and run_textract_sync in progress
  puts,    \* the put_object calls that succeeded, in order
  result,  \* what invoke returned
  fin,     \* arguments of the function under test (function specifications)
  fout     \* what it returned or raised

pvars == <<payload, entry, run, state, given, err, tb, calls, loc, puts, result>>
vars == <<pc, payload, entry, run, state, given, err, tb, calls, loc, puts, result, fin, fout>>

NoUri == [set |-> FALSE, bucket |-> PyNone, prefix |-> "", stem |-> "", ext |-> "", suffix |-> ""]
\* f"s3://{bucket}/textract-output/{filename}.txt", filename = key.split("/")[-1]
TextUri(bucket, key) ==
  [set |-> TRUE, bucket |-> bucket, prefix |-> "textract-output/",
   stem |-> key.stem, ext |-> key.ext, suffix |-> ".txt"]
\* f"outputs/{filename}.html"
ReportUri(bucket, key) ==
  [set |-> TRUE, bucket |-> bucket, prefix |-> "outputs/",
   stem |-> key.stem, ext |-> key.ext, suffix |-> ".html"]

WorkflowState(bucket, key) ==
  [bucket |-> bucket, key |-> key, text_s3_uri |-> NoUri, text |-> PyNone,
   classification |-> PyNone, processing_result |-> PyNone]

NoCalls ==
  [get |-> 0, put |-> 0, start |-> 0, poll |-> 0, page |-> 0, detect |-> 0,
   sleep |-> 0, ingest |-> 0, classify |-> 0, process |-> 0,
   llm_classify |-> 0, llm_process |-> 0, report |-> 0]

NoLoc ==
  [job_id |-> "", lines |-> <<>>, text |-> PyNone,
   polled |-> <<>>, paged |-> <<>>, sent |-> <<>>]

NoResult ==
  [returned |-> FALSE, bucket |-> PyNone, key |-> NoKey, text_s3_uri |-> NoUri,
   classification |-> PyNone, processing_result |-> PyNone]

NoPayload == [bucket |-> PyNone, key |-> NoKey]

NoOut == Returned(PyNone, <<>>)
NoIn == [none |-> TRUE]

PipelineAtRest ==
  /\ payload = NoPayload /\ entry = "" /\ run = 0 /\ tb = ""
  /\ state = WorkflowState(PyNone, NoKey) /\ given = WorkflowState(PyNone, NoKey)
  /\ err = NoExc /\ calls = NoCalls /\ loc = NoLoc /\ puts = <<>> /\ result = NoResult

\* records a caller may hand to supervisor
GivenRecords ==
  { [bucket |-> PyStr(<<"b">>), key |-> k,
     text_s3_uri |-> IF IsNone(t) THEN NoUri ELSE TextUri(PyStr(<<"b">>), k),
     text |-> t, classification |-> c, processing_result |-> r] :
      k \in {Key("intake/", "doc", ".txt"), Key("intake/", "doc", ".PDF")},
      t \in {PyNone, PyStr(<<>>), PyStr(<<"A">>)},
      c \in {PyNone, PyDict(<<>>), PyDict(<<PyItem("a", PyNum("1"))>>)},
      r \in {PyNone, PyDict(<<PyItem("b", PyNum("1"))>>)} }

ValueError == Exc("ValueError", <<"Payload must contain 'bucket' and 'key'">>)
ClientError(op) == Exc("ClientError", <<op>>)

\* a slip: the failed step is tried again
OnError_Retry(at) == at
\* no function of the program catches an exception of a stage: it leaves
\* supervisor and invoke, whatever the position it was raised at
OnError(at) == "failed"

Abort(exc, where) == pc' = OnError(pc) /\ err' = exc /\ tb' = where

\* a slip: `is None` tests, which let empty strings through
PayloadRejected_NoneOnly(bucket, key) == IsNone(bucket) \/ key.missing
\* `if not bucket or not key`
PayloadRejected(bucket, key) == ~Truthy(bucket) \/ ~KeyTruthy(key)

\* a slip: only FAILED is taken for a failure
JobFailed_OnlyFailed(status) == status = "FAILED"
\* `if status != "SUCCEEDED"`
JobFailed(status) == status # "SUCCEEDED"

Count(name) == calls' = [calls EXCEPT ![name] = @ + 1]

\* a slip: the text is handed back without being stored
AfterExtraction_NoStore == "sup_class"
\* ensure_text_ingested: whichever branch produced `text`, the statement
\* that follows is the put_object of the text
AfterExtraction == "put"

\* ------------------------------------------------------------------------
\* invoke, up to the call of supervisor
\* ------------------------------------------------------------------------
Init ==
  /\ pc = "idle"
  /\ PipelineAtRest
  /\ fin = NoIn /\ fout = NoOut

Invoke ==
  /\ pc = "idle"
  /\ \E bucket \in PayloadBuckets, key \in PayloadKeys :
       /\ payload' = [bucket |-> bucket, key |-> key]
       /\ IF PayloadRejected(bucket, key)
          THEN /\ Abort(ValueError, "invoke")
               /\ UNCHANGED <<state, given>>
          ELSE /\ state' = WorkflowState(bucket, key)
               /\ given' = WorkflowState(bucket, key)
               /\ pc' = "sup_text"
               /\ UNCHANGED <<err, tb>>
  /\ entry' = "invoke" /\ run' = 1
  /\ UNCHANGED <<calls, loc, puts, result, fin, fout>>

\* a caller hands supervisor a record of its own
SupervisorCall ==
  /\ pc = "idle"
  /\ \E record \in GivenRecords : state' = record /\ given' = record
  /\ entry' = "supervisor" /\ run' = 1
  /\ pc' = "sup_text"
  /\ UNCHANGED <<payload, err, tb, calls, loc, puts, result, fin, fout>>

\* ------------------------------------------------------------------------
\* supervisor, step 1: `if not state.text` and ensure_text_ingested
\* ------------------------------------------------------------------------
SupervisorText ==
  /\ pc = "sup_text"
  /\ IF Truthy(state.text)
     THEN pc' = "sup_class" /\ UNCHANGED calls
     ELSE /\ Count("ingest")
          /\ pc' = IF should_use_textract(state.key)
                   THEN IF EndsWithLower(state.key, ".pdf") THEN "ocr_start" ELSE "ocr_detect"
                   ELSE "read"
  /\ UNCHANGED <<payload, entry, run, state, given, err, tb, loc, puts, result, fin, fout>>

\* read_s3_object_as_text: get_object and the decoding
ReadS3 ==
  /\ pc = "read"
  /\ Count("get")
  /\ \/ Abort(ClientError("GetObject"), "ensure_text_ingested") /\ UNCHANGED loc
     \/ \E hint \in ContentTypeHints, body \in Bodies :
          LET r == read_s3_object_as_text(hint, state.key, body) IN
            IF r.raised THEN Abort(r.exc, "ensure_text_ingested") /\ UNCHANGED loc
            ELSE loc' = [loc EXCEPT !.text = r.v] /\ pc' = AfterExtraction /\ UNCHANGED <<err, tb>>
  /\ UNCHANGED <<payload, entry, run, state, given, puts, result, fin, fout>>

\* run_textract_sync, PDF: start_document_text_detection
StartDetection ==
  /\ pc = "ocr_start"
  /\ Count("start")
  /\ \/ Abort(ClientError("StartDocumentTextDetection"), "ensure_text_ingested") /\ UNCHANGED loc
     \/ \E job_id \in JobIds :
          loc' = [loc EXCEPT !.job_id = job_id] /\ pc' = "ocr_poll" /\ UNCHANGED <<err, tb>>
  /\ UNCHANGED <<payload, entry, run, state, given, puts, result, fin, fout>>

RECURSIVE LinesOfAll(_)
LinesOfAll(resps) ==
  IF resps = <<>> THEN <<>> ELSE LinesOf(Head(resps).Blocks) \o LinesOfAll(Tail(resps))

\* a slip: the lines are collected inside the polling loop
FirstLines_EveryPoll(job_resp) == LinesOfAll(loc.polled) \o LinesOf(job_resp.Blocks)
\* the lines run_textract_sync starts from once the job has succeeded
\* (lines = [], resp = job_resp)
FirstLines(job_resp) == AppendLines(<<>>, job_resp)

Pending(polled) == Cardinality({i \in 1..Len(polled) : ~IsTerminal(polled[i].JobStatus)})

\* one pass of the polling loop: get_document_text_detection(JobId=job_id)
PollStatus ==
  /\ pc = "ocr_poll"
  /\ Count("poll")
  /\ \/ Abort(ClientError("GetDocumentTextDetection"), "ensure_text_ingested") /\ UNCHANGED loc
     \/ \E job_resp \in PollResponses :
          /\ job_resp.JobStatus = "IN_PROGRESS" => Pending(loc.polled) < MaxPending
          /\ job_resp.NextToken # "" => MaxPages > 0
          /\ LET polled == Append(loc.polled, job_resp) IN
             IF ~IsTerminal(job_resp.JobStatus)
             THEN /\ loc' = [loc EXCEPT !.polled = polled]
                  /\ pc' = "ocr_sleep" /\ UNCHANGED <<err, tb>>
             ELSE IF JobFailed(job_resp.JobStatus)
             THEN /\ loc' = [loc EXCEPT !.polled = polled]
                  /\ Abort(RuntimeError(loc.job_id, job_resp.JobStatus), "ensure_text_ingested")
             ELSE IF job_resp.NextToken # ""
             THEN /\ loc' = [loc EXCEPT !.polled = polled, !.lines = FirstLines(job_resp)]
                  /\ pc' = "ocr_page" /\ UNCHANGED <<err, tb>>
             ELSE /\ loc' = [loc EXCEPT !.polled = polled, !.lines = FirstLines(job_resp),
                                        !.text = TextOfLines(FirstLines(job_resp))]
                  /\ pc' = AfterExtraction /\ UNCHANGED <<err, tb>>
  /\ UNCHANGED <<payload, entry, run, state, given, puts, result, fin, fout>>

\* time.sleep(1.0) between two polls
Sleep ==
  /\ pc = "ocr_sleep"
  /\ Count("sleep")
  /\ pc' = "ocr_poll"
  /\ UNCHANGED <<payload, entry, run, state, given, err, tb, loc, puts, result, fin, fout>>

\* next_token = resp.get("NextToken"), resp being the response in hand: the
\* last poll's, or the last page fetched
next_token(l) ==
  IF l.paged = <<>> THEN l.polled[Len(l.polled)].NextToken
  ELSE l.paged[Len(l.paged)].NextToken

\* the paging loop: get_document_text_detection(JobId=job_id, NextToken=next_token)
FetchPage ==
  /\ pc = "ocr_page"
  /\ Count("page")
  /\ \/ Abort(ClientError("GetDocumentTextDetection"), "ensure_text_ingested") /\ UNCHANGED loc
     \/ \E resp \in PageResponses :
          /\ resp.NextToken # "" => Len(loc.paged) + 1 < MaxPages
          /\ LET lines == AppendLines(loc.lines, resp) IN
             IF resp.NextToken # ""
             THEN /\ loc' = [loc EXCEPT !.paged = Append(@, resp), !.lines = lines,
                                        !.sent = Append(@, next_token(loc))]
                  /\ pc' = "ocr_page" /\ UNCHANGED <<err, tb>>
             ELSE /\ loc' = [loc EXCEPT !.paged = Append(@, resp), !.lines = lines,
                                        !.sent = Append(@, next_token(loc)),
                                        !.text = TextOfLines(lines)]
                  /\ pc' = AfterExtraction /\ UNCHANGED <<err, tb>>
  /\ UNCHANGED <<payload, entry, run, state, given, puts, result, fin, fout>>

\* run_textract_sync, images: detect_document_text
DetectSync ==
  /\ pc = "ocr_detect"
  /\ Count("detect")
  /\ \/ Abort(ClientError("DetectDocumentText"), "ensure_text_ingested") /\ UNCHANGED loc
     \/ \E response \in PageResponses :
          /\ response.NextToken = ""
          /\ loc' = [loc EXCEPT !.lines = AppendLines(<<>>, response),
                                !.text = TextOfLines(AppendLines(<<>>, response))]
          /\ pc' = AfterExtraction /\ UNCHANGED <<err, tb>>
  /\ UNCHANGED <<payload, entry, run, state, given, puts, result, fin, fout>>

\* ensure_text_ingested: put_object of the text, then supervisor sets
\* state.text and state.text_s3_uri
PutText ==
  /\ pc = "put"
  /\ Count("put")
  /\ \/ Abort(ClientError("PutObject"), "ensure_text_ingested") /\ UNCHANGED <<state, puts, loc>>
     \/ /\ puts' = Append(puts, [uri |-> TextUri(state.bucket, state.key), body |-> loc.text])
        /\ state' = [state EXCEPT !.text = loc.text,
                                  !.text_s3_uri = TextUri(state.bucket, state.key)]
        /\ loc' = NoLoc
        /\ pc' = "sup_class" /\ UNCHANGED <<err, tb>>
  /\ UNCHANGED <<payload, entry, run, given, result, fin, fout>>

\* ------------------------------------------------------------------------
\* supervisor, step 2: `if not state.classification` and run_classification_agent
\* ------------------------------------------------------------------------
SupervisorClassification ==
  /\ pc = "sup_class"
  /\ IF Truthy(state.classification)
     THEN pc' = "sup_proc" /\ UNCHANGED <<calls, state, err, tb>>
     ELSE /\ calls' = [calls EXCEPT !.classify = @ + 1, !.llm_classify = @ + 1]
          /\ \/ Abort(ClientError("InvokeModel"), "run_classification_agent") /\ UNCHANGED state
             \/ \E resp \in ModelResponses :
                  LET r == AgentResult(resp, "ClassificationAgent") IN
                    IF r.raised THEN Abort(r.exc, "run_classification_agent") /\ UNCHANGED state
                    ELSE /\ state' = [state EXCEPT !.classification = r.v]
                         /\ pc' = "sup_proc" /\ UNCHANGED <<err, tb>>
  /\ UNCHANGED <<payload, entry, run, given, loc, puts, result, fin, fout>>

\* ------------------------------------------------------------------------
\* supervisor, step 3: `if not state.processing_result`, run_processing_agent
\* and `return state`
\* ------------------------------------------------------------------------
AfterSupervisor == IF entry = "invoke" THEN "report" ELSE "returned"

SupervisorProcessing ==
  /\ pc = "sup_proc"
  /\ IF Truthy(state.processing_result)
     THEN pc' = AfterSupervisor /\ UNCHANGED <<calls, state, err, tb>>
     ELSE /\ calls' = [calls EXCEPT !.process = @ + 1, !.llm_process = @ + 1]
          /\ \/ Abort(ClientError("InvokeModel"), "run_processing_agent") /\ UNCHANGED state
             \/ \E resp \in ModelResponses :
                  LET r == AgentResult(resp, "ProcessingAgent") IN
                    IF r.raised THEN Abort(r.exc, "run_processing_agent") /\ UNCHANGED state
                    ELSE /\ state' = [state EXCEPT !.processing_result = r.v]
                         /\ pc' = AfterSupervisor /\ UNCHANGED <<err, tb>>
  /\ UNCHANGED <<payload, entry, run, given, loc, puts, result, fin, fout>>

\* ------------------------------------------------------------------------
\* invoke, after supervisor: the result and the report (failures swallowed)
\* ------------------------------------------------------------------------
\* render_html_report calls .get on `x or {}`: a truthy non-dict raises
RenderOk(st) ==
  /\ Truthy(st.classification) => st.classification.t = "dict"
  /\ Truthy(st.processing_result) => st.processing_result.t = "dict"

WriteReport ==
  /\ pc = "report"
  /\ result' = [returned |-> TRUE, bucket |-> state.bucket, key |-> state.key,
                text_s3_uri |-> state.text_s3_uri,
                classification |-> state.classification,
                processing_result |-> state.processing_result]
  /\ IF ~RenderOk(state) THEN UNCHANGED <<calls, puts>>
     ELSE /\ Count("report")
          /\ \/ UNCHANGED puts
             \/ puts' = Append(puts, [uri |-> ReportUri(state.bucket, state.key),
                                      body |-> PyStr(<<"x">>)])
  /\ pc' = "done"
  /\ UNCHANGED <<payload, entry, run, state, given, err, tb, loc, fin, fout>>

\* supervisor is run again on the record a completed run returned
Rerun ==
  /\ pc = "returned"
  /\ run < MaxRuns
  /\ run' = run + 1
  /\ given' = state
  /\ calls' = NoCalls
  /\ pc' = "sup_text"
  /\ UNCHANGED <<payload, entry, state, err, tb, loc, puts, result, fin, fout>>

Next ==
  \/ Invoke \/ SupervisorCall
  \/ SupervisorText \/ ReadS3 \/ StartDetection \/ PollStatus \/ Sleep
  \/ FetchPage \/ DetectSync \/ PutText
  \/ SupervisorClassification \/ SupervisorProcessing
  \/ WriteReport \/ Rerun

Spec == Init /\ [][Next]_vars

\* ------------------------------------------------------------------------
\* _parse_json_from_text on its own
\* ------------------------------------------------------------------------
RawText(f) == f.pre \o f.body \o f.post

InitJson ==
  /\ pc = "call_parse"
  /\ PipelineAtRest
  /\ \E pre \in Narrations, post \in Narrations, context \in Contexts :
       \/ \E o \in Objects :
            fin = [pre |-> pre, body |-> Dumps(o), post |-> post,
                   context |-> context, isobj |-> TRUE, obj |-> o]
       \/ \E frag \in Fragments :
            fin = [pre |-> pre, body |-> frag, post |-> post,
                   context |-> context, isobj |-> FALSE, obj |-> PyNone]
  /\ fout = NoOut

ParseCall ==
  /\ pc = "call_parse"
  /\ fout' = _parse_json_from_text(RawText(fin), fin.context)
  /\ pc' = "done_parse"
  /\ UNCHANGED <<fin, pvars>>

NextJson == ParseCall

SpecJson == InitJson /\ [][NextJson]_vars

\* ------------------------------------------------------------------------
\* read_s3_object_as_text on its own (direct-read keys only)
\* ------------------------------------------------------------------------
InitRead ==
  /\ pc = "call_read"
  /\ PipelineAtRest
  /\ \E hint \in ContentTypeHints, body \in Bodies :
       \E key \in {k \in AllKeys : ~should_use_textract(k)} :
         fin = [hint |-> hint, key |-> key, body |-> body]
  /\ fout = NoOut

ReadCall ==
  /\ pc = "call_read"
  /\ fout' = read_s3_object_as_text(fin.hint, fin.key, fin.body)
  /\ pc' = "done_read"
  /\ UNCHANGED <<fin, pvars>>

NextRead == ReadCall

SpecRead == InitRead /\ [][NextRead]_vars

\* ------------------------------------------------------------------------
\* _extract_text_from_agent_response on its own
\* ------------------------------------------------------------------------
\* values a `text` field or accessor may hold
TextValues ==
  { PyStr(<<"{", "}">>), PyStr(<<>>), PyNone, PyNum("1"), PyDict(<<>>),
    PyList(<<PyStr(<<"a">>)>>) }

\* top-level keys of a mapping next to (or without) `content`
TopLevelKeys ==
  { <<>>,
    <<PyItem("text", PyStr(<<"a">>))>>,
    <<PyItem("message", PyStr(<<"b">>)), PyItem("text", PyNone)>>,
    <<PyItem("message", PyStr(<<"b">>)), PyItem("output", PyStr(<<"1">>)),
      PyItem("text", PyStr(<<"a">>))>>,
    <<PyItem("output", PyStr(<<"1">>))>>,
    <<PyItem("message", PyDict(<<>>)), PyItem("output", PyNum("1"))>> }

\* what resp["content"] may be in a mapping
DictContents ==
  { PyList(<<PyDict(<<PyItem("text", v)>>)>>) : v \in TextValues }
  \cup { PyList(<<>>), PyList(<<PyDict(<<>>)>>), PyList(<<PyStr(<<"a">>)>>),
         PyStr(<<"a">>), PyNone }

\* what resp.content may be on an object
ObjectContents ==
  { PyList(<<PyObject(<<PyItem("text", v)>>, <<"x">>)>>) : v \in TextValues }
  \cup { PyList(<<>>), PyList(<<PyDict(<<PyItem("text", PyStr(<<"a">>))>>)>>),
         PyStr(<<"a">>) }

ResponseShapes ==
  { PyDict(<<PyItem("content", c)>> \o tl) : c \in DictContents, tl \in TopLevelKeys }
  \cup { PyDict(tl) : tl \in TopLevelKeys }
  \cup { PyObject(<<PyItem("content", c)>> \o tl, <<"x">>) :
           c \in ObjectContents, tl \in TopLevelKeys }
  \cup { PyObject(tl, <<"{", "}">>) : tl \in TopLevelKeys }
  \cup { PyStr(<<"{", "}">>), PyNone, PyNum("1"), PyList(<<>>) }

InitNorm ==
  /\ pc = "call_norm"
  /\ PipelineAtRest
  /\ \E resp \in ResponseShapes : fin = [resp |-> resp]
  /\ fout = NoOut

NormCall ==
  /\ pc = "call_norm"
  /\ fout' = Returned(_extract_text_from_agent_response(fin.resp), <<>>)
  /\ pc' = "done_norm"
  /\ UNCHANGED <<fin, pvars>>

NextNorm == NormCall

SpecNorm == InitNorm /\ [][NextNorm]_vars

\* ------------------------------------------------------------------------
\* C1  From a fresh WorkflowState a later field is never set while an
\*     earlier one is absent: classification only if text, processing_result
\*     only if classification.
\* ------------------------------------------------------------------------
C1_LaterFieldNeedsEarlier ==
  entry = "invoke" =>
    /\ ~IsNone(state.classification) => ~IsNone(state.text)
    /\ ~IsNone(state.processing_result) => ~IsNone(state.classification)

\* ------------------------------------------------------------------------
\* C2  supervisor never invokes a stage whose output field is already
\*     present on the record it is given; with text and classification set
\*     and processing_result absent it invokes the Extraction Stage exactly
\*     once and the other two stages never.
\* ------------------------------------------------------------------------
C2_PresentStagesAreSkipped ==
  entry = "supervisor" =>
    /\ ~IsNone(given.text) =>
         (calls.ingest = 0 /\ calls.get = 0 /\ calls.start = 0 /\ calls.detect = 0)
    /\ ~IsNone(given.classification) => calls.classify = 0
    /\ ~IsNone(given.processing_result) => calls.process = 0
    /\ ( /\ ~IsNone(given.text) /\ ~IsNone(given.classification)
         /\ IsNone(given.processing_result) /\ pc = "returned" )
         => calls.process = 1

\* ------------------------------------------------------------------------
\* C3  Running supervisor again on the record a completed run returned
\*     invokes no stage and leaves every field unchanged.
\* ------------------------------------------------------------------------
C3_RerunDoesNothing ==
  (entry = "supervisor" /\ run >= 2) => (calls = NoCalls /\ state = given)

\* ------------------------------------------------------------------------
\* C4  A PDF OCR job that ends FAILED or PARTIAL_SUCCESS makes the extractor
\*     raise an error naming the job and the status; the invocation fails,
\*     the text is not persisted, no later stage is invoked and no field of
\*     the record is set.
\* ------------------------------------------------------------------------
C4_OcrFailureAborts ==
  \A i \in 1..Len(loc.polled) :
    loc.polled[i].JobStatus \in {"FAILED", "PARTIAL_SUCCESS"} =>
      /\ i = Len(loc.polled)
      /\ pc = "failed"
      /\ err.type = "RuntimeError"
      /\ HasPart(err.parts, loc.job_id)
      /\ HasPart(err.parts, loc.polled[i].JobStatus)
      /\ tb = "ensure_text_ingested"
      /\ calls.put = 0 /\ calls.page = 0
      /\ calls.classify = 0 /\ calls.llm_classify = 0
      /\ calls.process = 0 /\ calls.llm_process = 0
      /\ calls.report = 0 /\ ~result.returned
      /\ state = given
      /\ entry = "invoke" => (state = WorkflowState(payload.bucket, payload.key) /\ puts = <<>>)

C4_Witness ==
  /\ pc = "failed" /\ entry = "invoke"
  /\ err = RuntimeError("job2", "PARTIAL_SUCCESS")
  /\ Len(loc.polled) = 2
  /\ loc.polled[2].JobStatus = "PARTIAL_SUCCESS"

\* ------------------------------------------------------------------------
\* C5  On the PDF path the extractor polls until the first terminal status
\*     and never after it: k non-terminal statuses and then SUCCEEDED make
\*     k+1 status queries and k sleeps, one between two consecutive polls;
\*     the text is built from the LINE blocks of the SUCCEEDED response (and
\*     of the result pages that continue it), never from an earlier poll.
\* ------------------------------------------------------------------------
TerminalStatuses == {"SUCCEEDED", "FAILED", "PARTIAL_SUCCESS"}

C5_PollsUntilTerminal ==
  LET n == Len(loc.polled) IN
  /\ \A i \in 1..(n - 1) : loc.polled[i].JobStatus \notin TerminalStatuses
  /\ calls.sleep <= calls.poll /\ calls.poll <= calls.sleep + 1
  /\ pc = "ocr_sleep" => loc.polled[n].JobStatus \notin TerminalStatuses
  /\ (pc \in {"put", "ocr_page"} /\ n > 0) =>
       /\ loc.polled[n].JobStatus = "SUCCEEDED"
       /\ calls.poll = n
       /\ calls.sleep = n - 1
  /\ (pc = "put" /\ n > 0) =>
       /\ loc.text = PyStr(Strip(JoinLines(LinesOf(loc.polled[n].Blocks)
                                           \o LinesOfAll(loc.paged))))
       /\ loc.polled[n].NextToken = "" =>
            /\ calls.page = 0
            /\ loc.text = PyStr(Strip(JoinLines(LinesOf(loc.polled[n].Blocks))))

C5_Witness ==
  /\ pc = "put"
  /\ Len(loc.polled) = 3
  /\ loc.polled[1].JobStatus = "IN_PROGRESS" /\ loc.polled[1].Blocks = LineA
  /\ loc.polled[2].JobStatus = "IN_PROGRESS"
  /\ loc.polled[3] = TextractResponse("SUCCEEDED", PageB, "")
  /\ calls.poll = 3 /\ calls.sleep = 2
  /\ loc.text = PyStr(<<"B">>)

\* ------------------------------------------------------------------------
\* C6  When _parse_json_from_text cannot recover JSON, the failure it
\*     surfaces is a parse failure whose message carries the calling context.
\*     (The code re-raises json's own error; the context is only logged.)
\* ------------------------------------------------------------------------
C6_FailureCarriesContext ==
  (pc = "done_parse" /\ fout.raised) =>
    /\ fout.exc.type = "JSONDecodeError"
    /\ HasPart(fout.exc.parts, fin.context)

\* ------------------------------------------------------------------------
\* C7  Two tiers: the strict parse of the full text when it succeeds, else
\*     the parse of the substring from the first "{" to the last "}".
\* ------------------------------------------------------------------------
NoBraces(t) == \A i \in 1..Len(t) : t[i] \notin {"{", "}"}
OnlyWs(t) == \A i \in 1..Len(t) : t[i] \in WsLex

\* C7 as stated: for every object O and every narration around its
\* serialization the result is an object equal to O.
C7_AnyNarration ==
  (pc = "done_parse" /\ fin.isobj) => (~fout.raised /\ fout.v = fin.obj)

\* C7 amended: the strict parse of the full text is returned when it
\* succeeds; for every object O and every narration without "{" and "}"
\* around its serialization, the result is O unless the whole text is itself
\* valid JSON; with whitespace-only narration the result is O.
C7_TwoTier ==
  pc = "done_parse" =>
    LET raw == RawText(fin)
        strict == Loads(raw) IN
    /\ strict.ok => (~fout.raised /\ fout.v = strict.v /\ fout.log = <<>>)
    /\ (fin.isobj /\ NoBraces(fin.pre) /\ NoBraces(fin.post) /\ ~strict.ok)
         => (~fout.raised /\ fout.v = fin.obj)
    /\ (fin.isobj /\ OnlyWs(fin.pre) /\ OnlyWs(fin.post))
         => (~fout.raised /\ fout.v = fin.obj)
    /\ (~strict.ok /\ ~fout.raised) =>
         \E i \in 1..Len(raw) : \E j \in i..Len(raw) :
           /\ raw[i] = "{" /\ raw[j] = "}"
           /\ \A h \in 1..(i - 1) : raw[h] # "{"
           /\ \A h \in (j + 1)..Len(raw) : raw[h] # "}"
           /\ fout.v = Loads(SubSeq(raw, i, j)).v

C7_Witness ==
  /\ pc = "done_parse"
  /\ fin.isobj /\ fin.pre = <<"x">> /\ fin.post = <<"x">>
  /\ Len(fin.obj.c) = 2
  /\ ~fout.raised /\ fout.v = fin.obj

\* ------------------------------------------------------------------------
\* C8  On the direct-read path the extractor never raises a decoding error,
\*     and returns exactly the UTF-8 decoding of valid UTF-8 bytes.
\* ------------------------------------------------------------------------
C8_NeverRaisesDecodeError ==
  pc = "done_read" =>
    /\ ~fout.raised
    /\ Utf8Strict(fin.body).ok => fout.v = PyStr(Utf8Strict(fin.body).s)

\* ------------------------------------------------------------------------
\* C9  A payload that lacks bucket or key (missing or empty) fails at once
\*     with an input error: no WorkflowState is processed and no storage,
\*     OCR or model call and no report write is made.
\* ------------------------------------------------------------------------
LacksCoordinates(p) ==
  \/ p.bucket \in {PyNone, PyStr(<<>>)}
  \/ p.key \in {NoKey, EmptyKey}

C9_RejectedBeforeAnySideEffect ==
  (entry = "invoke" /\ LacksCoordinates(payload)) =>
    /\ pc = "failed"
    /\ err.type = "ValueError" /\ tb = "invoke"
    /\ calls = NoCalls
    /\ puts = <<>> /\ loc = NoLoc
    /\ state = WorkflowState(PyNone, NoKey) /\ given = WorkflowState(PyNone, NoKey)
    /\ ~result.returned

C9_Witness ==
  /\ pc = "failed" /\ entry = "invoke"
  /\ payload = [bucket |-> PyStr(<<"b">>), key |-> EmptyKey]
  /\ err = ValueError
  /\ calls = NoCalls

\* ------------------------------------------------------------------------
\* C10 Each model-calling stage calls the model at most once in a run and
\*     nothing is retried: a failure in the Classification Stage ends the
\*     run with the Extraction Stage never invoked and processing_result
\*     never set; a failure in the Extraction Stage ends it with no second
\*     model call; a run makes at most 2 model calls.
\* ------------------------------------------------------------------------
C10_NoRetry ==
  /\ calls.llm_classify <= 1 /\ calls.llm_process <= 1
  /\ calls.llm_classify + calls.llm_process <= 2
  /\ calls.classify = calls.llm_classify /\ calls.process = calls.llm_process
  /\ tb # "" => pc = "failed"
  /\ tb = "run_classification_agent" =>
       /\ calls.llm_classify = 1
       /\ calls.process = 0 /\ calls.llm_process = 0
       /\ state.classification = given.classification
       /\ state.processing_result = given.processing_result
       /\ entry = "invoke" => IsNone(state.processing_result)
       /\ ~result.returned
  /\ tb = "run_processing_agent" =>
       /\ calls.llm_process = 1
       /\ state.processing_result = given.processing_result
       /\ ~result.returned

C10_Witness ==
  /\ pc = "failed" /\ entry = "invoke"
  /\ tb = "run_classification_agent"
  /\ err.type = "JSONDecodeError"
  /\ calls.llm_classify = 1 /\ calls.llm_process = 0

\* ------------------------------------------------------------------------
\* C11 On a SUCCEEDED PDF job the extractor follows the continuation token
\*     from page to page until a page has none, fetches each page once, and
\*     returns the LINE texts of all pages in page order then block order.
\*     As stated: the text is exactly those lines joined by newlines, none
\*     dropped.
\* ------------------------------------------------------------------------
\* the result pages in hand: the SUCCEEDED response, then the pages fetched
Pages(l) == <<l.polled[Len(l.polled)]>> \o l.paged

C11_FollowsTokens ==
  /\ Len(loc.sent) = Len(loc.paged)
  /\ \A i \in 1..Len(loc.sent) :
       loc.sent[i] # "" /\ loc.sent[i] = Pages(loc)[i].NextToken
  /\ pc \in {"put", "ocr_page"} => calls.page = Len(loc.paged)
  /\ pc = "ocr_page" =>
       /\ next_token(loc) # ""
       /\ loc.lines = LinesOfAll(Pages(loc))
  /\ (pc = "put" /\ loc.polled # <<>>) =>
       /\ next_token(loc) = ""
       /\ loc.lines = LinesOfAll(Pages(loc))

C11_NoLineDropped ==
  /\ C11_FollowsTokens
  /\ (pc = "put" /\ loc.polled # <<>>) =>
       loc.text = PyStr(JoinLines(LinesOfAll(Pages(loc))))

\* C11 as the code has it: the joined text is stripped of leading and
\*     trailing whitespace, so a whitespace-only first or last line is lost;
\*     the rest of the claim holds.
C11_PagesInOrderStripped ==
  /\ C11_FollowsTokens
  /\ (pc = "put" /\ loc.polled # <<>>) =>
       loc.text = PyStr(Strip(JoinLines(LinesOfAll(Pages(loc)))))

C11_Witness ==
  /\ pc = "put"
  /\ Len(loc.polled) = 1
  /\ loc.polled[1] = TextractResponse("SUCCEEDED", LineA, "t1")
  /\ loc.paged = <<TextractResponse("SUCCEEDED", PageB, "t2"),
                  TextractResponse("SUCCEEDED", LineA, "")>>
  /\ loc.sent = <<"t1", "t2">> /\ calls.page = 2 /\ calls.poll = 1
  /\ loc.text = PyStr(<<"A", "\n", "B", "\n", "A">>)

\* ------------------------------------------------------------------------
\* C12 Whenever text extraction succeeds, by whichever path, the text is
\*     written to textract-output/<filename>.txt exactly once and before the
\*     Classification Stage calls the model, and text_s3_uri is set to that
\*     location; if the write fails the invocation fails and no model call
\*     is made.
\* ------------------------------------------------------------------------
\* s3://<bucket>/textract-output/<filename>.txt for the record's bucket and key
DerivedLocation(st) ==
  [set |-> TRUE, bucket |-> st.bucket, prefix |-> "textract-output/",
   stem |-> st.key.stem, ext |-> st.key.ext, suffix |-> ".txt"]

TextPuts == SelectSeq(puts, LAMBDA p : p.uri.prefix = "textract-output/")

PutFailed == err = ClientError("PutObject")

C12_TextPersistedFirst ==
  /\ calls.ingest <= 1 /\ calls.put <= calls.ingest
  /\ Len(TextPuts) <= run
  \* extraction has succeeded and nothing was written or asked of a model yet
  /\ pc = "put" =>
       /\ calls.put = 0 /\ loc.text.t = "str"
       /\ calls.llm_classify = 0 /\ calls.llm_process = 0
  \* no model call of a run that extracted the text precedes the write
  /\ (calls.ingest = 1 /\ calls.llm_classify + calls.llm_process > 0) =>
       calls.put = 1 /\ ~PutFailed
  \* the write was made: once, to the derived location, with the text
  /\ (calls.put = 1 /\ ~PutFailed) =>
       /\ TextPuts # <<>>
       /\ TextPuts[Len(TextPuts)] = [uri |-> DerivedLocation(state), body |-> state.text]
       /\ state.text_s3_uri = DerivedLocation(state)
       /\ state.text.t = "str"
       /\ run = 1 => Len(TextPuts) = 1
  \* the write failed
  /\ PutFailed =>
       /\ pc = "failed" /\ tb = "ensure_text_ingested"
       /\ calls.put = 1
       /\ calls.llm_classify = 0 /\ calls.llm_process = 0
       /\ calls.classify = 0 /\ calls.process = 0
       /\ state = given
       /\ ~result.returned
       /\ run = 1 => TextPuts = <<>>

C12_Witness ==
  /\ pc = "sup_proc" /\ entry = "invoke"
  /\ state.key = Key("intake/", "doc", ".png")
  /\ calls.detect = 1 /\ calls.put = 1 /\ calls.llm_classify = 1
  /\ puts = <<[uri |-> DerivedLocation(state), body |-> PyStr(<<"A">>)]>>
  /\ state.text = PyStr(<<"A">>)
  /\ state.text_s3_uri.prefix = "textract-output/"
  /\ state.text_s3_uri.ext = ".png" /\ state.text_s3_uri.suffix = ".txt"

\* ------------------------------------------------------------------------
\* C13 _extract_text_from_agent_response never fails and always returns a
\*     text string, for every response shape: a mapping whose content
\*     sequence has a first element carrying a text field of any value, a
\*     mapping with a top-level text/message/output string, an object with a
\*     content/message/text accessor, and any other value (string rendering).
\* ------------------------------------------------------------------------
C13_AlwaysReturnsText ==
  pc = "done_norm" => (~fout.raised /\ fout.v.t = "str")

====
